---- MODULE Spec2Model ----
(***************************************************************************)
(* knex-modeller: the model generator of lib/model.js (latest revision,    *)
(* src/unnamed/part_000 lines 436-948).  A schema ("definitions") is an    *)
(* ordered list of field definitions; Model(table, definitions) returns    *)
(* the record constructor m with its static and instance operations; the   *)
(* knex query builder is the storage collaborator.                         *)
(***************************************************************************)
EXTENDS Integers, Sequences, FiniteSets, TLC

(***************************************************************************)
(* Bounds of the model.                                                    *)
(***************************************************************************)
\* numbers are 0..MaxNum, strings are "x" repeated 1..MaxNum times
MaxNum == 2
\* the table holds at most MaxRows rows
MaxRows == 2
\* the caller starts at most MaxOps operations
MaxOps == 3
\* a schema given to Model() has at most MaxFields fields
MaxFields == 3
\* an _overrides object has at most MaxOverrides entries
MaxOverrides == 2

(***************************************************************************)
(* JavaScript values.  A value is a record [t, n]: t is its typeof-like    *)
(* tag and n the number, or the length of the string.                      *)
(***************************************************************************)
Num(n) == [t |-> "number", n |-> n]
Str(n) == [t |-> "string", n |-> n]
\* a string that names a column, and a boolean
Name(s) == [t |-> "string", n |-> 0, s |-> s]
Bool(b) == [t |-> "boolean", n |-> IF b THEN 1 ELSE 0]
Null == [t |-> "null", n |-> 0]
Undefined == [t |-> "undefined", n |-> 0]

Numbers == {Num(n) : n \in 0..MaxNum}
Strings == {Str(n) : n \in 1..MaxNum}
\* the values a property can hold
Values == Numbers \cup Strings \cup {Null}

\* _.isUndefined(value) || _.isNull(value)
IsNil(v) == v.t = "undefined" \/ v.t = "null"

\* a plain object: a function from its own keys to values
EmptyObject == [k \in {} |-> Undefined]
\* obj[key]
Get(obj, key) == IF key \in DOMAIN obj THEN obj[key] ELSE Undefined
\* obj[key] = val
Put(obj, key, val) == [k \in DOMAIN obj \cup {key} |-> IF k = key THEN val ELSE obj[k]]
\* delete obj[key]
Delete(obj, key) == [k \in DOMAIN obj \ {key} |-> obj[k]]
\* _.extend(a, b)
Extend(a, b) == [k \in DOMAIN a \cup DOMAIN b |-> IF k \in DOMAIN b THEN b[k] ELSE a[k]]
\* every object over the keys ks whose property k is drawn from vals[k]
ObjectsOver(ks, vals) ==
  UNION {{o \in [sub -> UNION {vals[k] : k \in sub}] : \A k \in sub : o[k] \in vals[k]} :
           sub \in SUBSET ks}

(***************************************************************************)
(* Field definitions.                                                      *)
(***************************************************************************)
\* def.default: missing (undefined or null), a literal, or a function
NoDefault == [kind |-> "none", val |-> Undefined]
Literal(v) == [kind |-> "literal", val |-> v]
Producer(v) == [kind |-> "function", val |-> v]

Def(type, default, nullable, autoIncrement, primaryId, validate, transform) ==
  [type |-> type, default |-> default, nullable |-> nullable,
   autoIncrement |-> autoIncrement, primaryId |-> primaryId,
   validate |-> validate, transform |-> transform]

\* check.assert[def.type](value) does not throw
TypePredicate(type, v) ==
  CASE type = "string" -> v.t = "string"
    [] type = "number" -> v.t = "number"
    [] type = "positive" -> v.t = "number" /\ v.n > 0
    [] OTHER -> FALSE

\* the user's validate functions: "isShort" returns a boolean, "length"
\* returns a number
Validate(name, v) ==
  CASE name = "isShort" -> IF v.n <= 1 THEN "true" ELSE "false"
    [] OTHER -> "other"

\* the user's transform function "inc": v + 1 for a number, v + 'x' for a
\* string
Transform(name, v) ==
  IF name = "inc" /\ v.t \in {"number", "string"}
  THEN [v EXCEPT !.n = v.n + 1]
  ELSE v

\* a schema is the sequence of its entries [key, def], in declaration order
Field(key, def) == [key |-> key, def |-> def]
\* the keys of a schema
Keys(defs) == {defs[i].key : i \in 1..Len(defs)}
\* definitions[key]
DefOf(defs, key) == defs[CHOOSE i \in 1..Len(defs) : defs[i].key = key].def
\* definitions.hasOwnProperty(key)
HasOwnProperty(defs, key) == \E i \in 1..Len(defs) : defs[i].key = key

(***************************************************************************)
(* Errors.  A message is the sequence of the parts concatenated into it.   *)
(***************************************************************************)
NoError == [class |-> "none", message |-> <<>>]
\* new Error(a, b, ...): the message is the first argument alone
NewError(args) == [class |-> "Error", message |-> args[1]]
\* new TypeError(a)
NewTypeError(args) == [class |-> "TypeError", message |-> args[1]]
\* the message mentions the name
Names(error, name) == \E i \in 1..Len(error.message) : error.message[i] = name

\* typeof value
TypeOf(v) == IF v.t = "null" THEN "object" ELSE v.t

(***************************************************************************)
(* checkTypes(definitions, values): the error it throws, or NoError.       *)
(***************************************************************************)
\* !_.isUndefined(def.default) && !_.isNull(def.default)
HasDefault(def) == def.default.kind # "none"
\* check.function(def.default) ? def.default() : def.default
ResolveDefault(def) == def.default.val

\* checkField as the earlier revision had it: if (!value), so that 0 counts as
\* no value
MutFalsyIsMissing(def, key, values) ==
  LET given == Get(values, key)
      missing == IsNil(given) \/ given = Num(0)
      value == IF missing /\ HasDefault(def) THEN ResolveDefault(def) ELSE given
  IN IF missing /\ ~HasDefault(def)
     THEN IF def.nullable \/ def.autoIncrement
          THEN NoError
          ELSE NewError(<<(<<"Missing required property ", key>>)>>)
     ELSE IF ~TypePredicate(def.type, value)
     THEN NewTypeError(<<(<<"Field ", key, " requires type ", def.type,
                           " but has type ", TypeOf(value)>>)>>)
     ELSE IF def.validate # "none" /\ Validate(def.validate, value) # "true"
     THEN NewTypeError(<<(<<"validate() function for ", key,
                           " must return a boolean.">>)>>)
     ELSE NoError

\* the body of the _.each callback for one definition
checkField(def, key, values) ==
  LET given == Get(values, key)
      missing == IsNil(given)
      value == IF missing /\ HasDefault(def) THEN ResolveDefault(def) ELSE given
  IN IF missing /\ ~HasDefault(def)
     THEN IF def.nullable \/ def.autoIncrement
          THEN NoError
          ELSE NewError(<<(<<"Missing required property ", key>>)>>)
     ELSE IF ~TypePredicate(def.type, value)
     THEN NewTypeError(<<(<<"Field ", key, " requires type ", def.type,
                           " but has type ", TypeOf(value)>>)>>)
     ELSE IF def.validate # "none"
     THEN LET valid == Validate(def.validate, value)
          IN IF valid = "true" THEN NoError
             ELSE IF valid = "false"
             THEN NewTypeError(<<(<<"Value ", ToString(value.n),
                                   " did not pass custom validation function on field ",
                                   key>>)>>)
             ELSE NewTypeError(<<(<<"validate() function for ", key,
                                   " must return a boolean.">>)>>)
     ELSE NoError

RECURSIVE checkTypesFrom(_, _, _)
checkTypesFrom(defs, values, i) ==
  IF i > Len(defs) THEN NoError
  ELSE LET e == checkField(defs[i].def, defs[i].key, values)
       IN IF e # NoError THEN e ELSE checkTypesFrom(defs, values, i + 1)

checkTypes(defs, values) == checkTypesFrom(defs, values, 1)

(***************************************************************************)
(* The record constructor m(values).                                       *)
(***************************************************************************)
\* _.pick(values, function(val, key) { return definitions.hasOwnProperty(key) })
Pick(defs, values) == [k \in DOMAIN values \cap Keys(defs) |-> values[k]]

\* the transform step over the picked values
ApplyTransforms(defs, values) ==
  [k \in DOMAIN values |-> Transform(DefOf(defs, k).transform, values[k])]

\* applyValues(obj, values)
applyValues(obj, values) == Extend(obj, values)

\* new m(values): the error thrown, and the properties of the new instance
Construct(defs, values) ==
  LET transformed == ApplyTransforms(defs, Pick(defs, values))
      error == checkTypes(defs, transformed)
  IN [error |-> error,
      props |-> IF error = NoError THEN applyValues(EmptyObject, transformed)
                ELSE EmptyObject]

(***************************************************************************)
(* Model(table, definitions): the scan that sets m._primaryKey and         *)
(* m._hasDeletedBit, and the model it returns.                             *)
(***************************************************************************)
\* m._primaryKey before the scan sets it
NoKey == "<undefined>"
\* m._primaryKey as a condition
Truthy(pk) == pk # NoKey /\ pk # ""

RECURSIVE ScanFrom(_, _, _, _)
ScanFrom(tableName, defs, i, pk) ==
  IF i > Len(defs) THEN [error |-> NoError, primaryKey |-> pk]
  ELSE IF defs[i].def.primaryId /\ ~Truthy(pk)
  THEN ScanFrom(tableName, defs, i + 1, defs[i].key)
  ELSE IF defs[i].def.primaryId /\ Truthy(pk)
  THEN [error |-> NewError(<<(<<"Cannot have multiple primary keys on model ",
                               tableName>>)>>),
        primaryKey |-> pk]
  ELSE ScanFrom(tableName, defs, i + 1, pk)

\* the table argument of Model(): a string, a number, or nothing
TableNamed(name) == [kind |-> "string", name |-> name]
NumericTable == [kind |-> "number", name |-> "1"]
NoTable == [kind |-> "undefined", name |-> ""]

\* the value a schema gives a reserved key (_statics, _overrides): the key is
\* absent, holds a number, or holds an object with the listed entries
Absent == [kind |-> "absent", val |-> Undefined, entries |-> <<>>]
Primitive(v) == [kind |-> "value", val |-> v, entries |-> <<>>]
Mapping(entries) == [kind |-> "object", val |-> Undefined, entries |-> entries]
\* an entry of _overrides: prop is a function (F, G) or something else
Override(key, prop) == [key |-> key, prop |-> prop]
Functions == {"F", "G"}
\* the default implementation of a method
Default == "default"

\* the definitions argument of Model(): an object with its fields in order and
\* its reserved keys (written after the fields), a string, or nothing
Schema(fields, statics, overrides) ==
  [kind |-> "object", fields |-> fields, statics |-> statics, overrides |-> overrides]
Fields(defs) == Schema(defs, Absent, Absent)
NoSchema == [kind |-> "omitted", fields |-> <<>>, statics |-> Absent, overrides |-> Absent]
NotASchema == [kind |-> "string", fields |-> <<>>, statics |-> Absent, overrides |-> Absent]

\* if (definitions._statics)
StaticsTruthy(statics) ==
  statics.kind = "object" \/ (statics.kind = "value" /\ statics.val # Num(0))
\* _.isObject(definitions._overrides)
IsObject(overrides) == overrides.kind = "object"

\* a reserved key that was not deleted stays in definitions; its value, a
\* number, has no type, default, nullable, primaryId or transform
PrimitiveDef == Def("undefined", NoDefault, FALSE, FALSE, FALSE, "none", "none")

\* the methods _overrides may name
mutableMethods == {"get", "getOne", "insert", "update"}

\* _overrides accepted whatever its keys are
MutAnyOverride(tableName, entries) ==
  LET RECURSIVE From(_, _)
      From(j, acc) ==
        IF j > Len(entries) THEN [error |-> NoError, overrides |-> acc]
        ELSE IF entries[j].prop \in Functions
        THEN From(j + 1, Put(acc, entries[j].key, entries[j].prop))
        ELSE [error |-> NewTypeError(<<(<<"Model _overrides object should only ",
                                         "contain functions">>)>>),
              overrides |-> acc]
  IN From(1, EmptyObject)

\* _.each(definitions._overrides, ...): the error thrown, or the overrides
\* object it fills
ValidateOverrides(tableName, entries) ==
  LET RECURSIVE From(_, _)
      From(j, acc) ==
        IF j > Len(entries) THEN [error |-> NoError, overrides |-> acc]
        ELSE IF entries[j].key \in mutableMethods
        THEN IF entries[j].prop \in Functions
             THEN From(j + 1, Put(acc, entries[j].key, entries[j].prop))
             ELSE [error |-> NewTypeError(<<(<<"Model _overrides object should only ",
                                              "contain functions">>)>>),
                   overrides |-> acc]
        ELSE [error |-> NewError(<<(<<"Cannot override immutable method ",
                                      entries[j].key, " on model ", tableName>>)>>),
              overrides |-> acc]
  IN From(1, EmptyObject)

\* if (overrides.get) m.get = overrides.get; else the default, for each method
Installed(overrides, method) ==
  IF method \in DOMAIN overrides THEN overrides[method] ELSE Default
Methods(overrides) ==
  [method \in {"get", "getOne", "deleteWhere", "insert", "update", "delete"} |->
     Installed(overrides, method)]

\* no model defined yet
NoModel ==
  [defined |-> FALSE, table |-> "", definitions |-> <<>>,
   primaryKey |-> NoKey, hasDeletedBit |-> FALSE,
   statics |-> Absent, methods |-> Methods(EmptyObject)]

\* the error of the argument check
BadArguments ==
  NewTypeError(<<(<<"Model() must be called with a string table name ",
                   "and an object schema definition">>)>>)

\* Model(table, definitions): the error thrown, and the model returned
Model(table, definitions) ==
  IF table.kind # "string" \/ definitions.kind # "object"
  THEN [error |-> BadArguments, m |-> NoModel]
  ELSE LET keptStatics ==
             IF definitions.statics.kind # "absent" /\ ~StaticsTruthy(definitions.statics)
             THEN <<Field("_statics", PrimitiveDef)>> ELSE <<>>
           keptOverrides ==
             IF definitions.overrides.kind # "absent" /\ ~IsObject(definitions.overrides)
             THEN <<Field("_overrides", PrimitiveDef)>> ELSE <<>>
           validated ==
             IF IsObject(definitions.overrides)
             THEN ValidateOverrides(table.name, definitions.overrides.entries)
             ELSE [error |-> NoError, overrides |-> EmptyObject]
           defs == definitions.fields \o keptStatics \o keptOverrides
           scan == ScanFrom(table.name, defs, 1, NoKey)
           error == IF validated.error # NoError THEN validated.error ELSE scan.error
       IN [error |-> error,
           m |-> IF error # NoError THEN NoModel
                 ELSE [defined |-> TRUE, table |-> table.name, definitions |-> defs,
                       primaryKey |-> scan.primaryKey,
                       hasDeletedBit |-> "deleted" \in Keys(defs),
                       statics |-> IF StaticsTruthy(definitions.statics)
                                   THEN definitions.statics ELSE Mapping(<<>>),
                       methods |-> Methods(validated.overrides)]]

\* m.hasField(key)
hasField(mdl, key) == HasOwnProperty(mdl.definitions, key)

(***************************************************************************)
(* The knex collaborator: the calls the operations build, and what the     *)
(* table does with them.                                                   *)
(***************************************************************************)
\* what an operation returns or resolves to
Value(type, props, list, n) == [type |-> type, props |-> props, list |-> list, n |-> n]
NoValue == Value("undefined", EmptyObject, <<>>, 0)
Boolean(b) == Value("boolean", EmptyObject, <<>>, IF b THEN 1 ELSE 0)
Record(props) == Value("record", props, <<>>, 0)
NullValue == Value("null", EmptyObject, <<>>, 0)
Rows(rows) == Value("rows", EmptyObject, rows, 0)
Raw(n) == Value("raw", EmptyObject, <<>>, n)

\* defaults.limit and defaults.offset of get()
DefaultLimit == 100
DefaultOffset == 0

\* knex(table).where(where).limit(limit).offset(offset).orderBy(orderBy, dir)
\* followed by select(), insert(data), update(data) or delete()
\* result: what the collaborator resolved the call to, once it has
Call(method, where, data, limit, offset, orderBy, dir) ==
  [method |-> method, where |-> where, data |-> data, limit |-> limit,
   offset |-> offset, orderBy |-> orderBy, dir |-> dir, result |-> NoValue]

\* the column the table generates: the schema's autoIncrement field
AutoKey(defs) ==
  IF \E i \in 1..Len(defs) : defs[i].def.autoIncrement
  THEN defs[CHOOSE i \in 1..Len(defs) :
              /\ defs[i].def.autoIncrement
              /\ \A j \in 1..(i - 1) : ~defs[j].def.autoIncrement].key
  ELSE NoKey

\* a column the row does not give holds NULL
RowGet(row, k) == IF k \in DOMAIN row THEN row[k] ELSE Null
\* the flat equality filter of where(pred)
Matches(row, pred) == \A k \in DOMAIN pred : RowGet(row, k) = pred[k]
\* a predicate with an undefined key or value is no query: the call rejects
Executable(call) ==
  \A k \in DOMAIN call.where : k # NoKey /\ call.where[k] # Undefined

Rank(v) == IF IsNil(v) THEN -1 ELSE v.n
InOrder(a, b, key, dir) ==
  IF dir = "asc" THEN Rank(RowGet(a, key)) <= Rank(RowGet(b, key))
  ELSE Rank(RowGet(a, key)) >= Rank(RowGet(b, key))

RECURSIVE InsertInOrder(_, _, _, _)
InsertInOrder(sorted, row, key, dir) ==
  IF sorted = <<>> THEN <<row>>
  ELSE IF InOrder(Head(sorted), row, key, dir)
  THEN <<Head(sorted)>> \o InsertInOrder(Tail(sorted), row, key, dir)
  ELSE <<row>> \o sorted

RECURSIVE OrderBy(_, _, _)
OrderBy(rows, key, dir) ==
  IF rows = <<>> THEN <<>>
  ELSE InsertInOrder(OrderBy(SubSeq(rows, 1, Len(rows) - 1), key, dir),
                     rows[Len(rows)], key, dir)

Min(a, b) == IF a < b THEN a ELSE b

\* the rows a select resolves to
KnexSelect(rows, call) ==
  LET Hit(row) == Matches(row, call.where)
      hits == SelectSeq(rows, Hit)
      ordered == IF call.orderBy = NoKey THEN hits
                 ELSE OrderBy(hits, call.orderBy, call.dir)
      from == IF call.offset = Undefined THEN 1 ELSE call.offset.n + 1
      to == IF call.limit = Undefined THEN Len(ordered)
            ELSE Min(Len(ordered), call.offset.n + call.limit.n)
  IN SubSeq(ordered, from, to)

\* the table after an insert, and the insert id it resolves to
KnexInsert(table, defs, data) ==
  LET auto == AutoKey(defs)
  IN IF auto # NoKey
     THEN [rows |-> Append(table.rows, Put(data, auto, Num(table.nextId))),
           nextId |-> table.nextId + 1, insertId |-> table.nextId]
     ELSE [rows |-> Append(table.rows, data), nextId |-> table.nextId,
           insertId |-> 0]

\* the table has room for the insert
CanInsert(table, defs) ==
  /\ Len(table.rows) < MaxRows
  /\ AutoKey(defs) # NoKey => table.nextId <= MaxNum

\* the rows after update(data) on the rows the predicate matches
KnexUpdate(rows, pred, data) ==
  [i \in 1..Len(rows) |->
     IF Matches(rows[i], pred) THEN Extend(rows[i], data) ELSE rows[i]]

\* the rows after delete() on the rows the predicate matches
KnexDelete(rows, pred) ==
  LET Kept(row) == ~Matches(row, pred) IN SelectSeq(rows, Kept)

\* the engine error of a rejected call
StorageFault == [class |-> "Error", message |-> <<"storage fault">>]
ConnectionLost == [class |-> "Error", message |-> <<"connection lost">>]
\* the errors the collaborator rejects a call with
Faults == {StorageFault, ConnectionLost}
\* a call the collaborator rejected with error
Fault(error) == Value("fault", EmptyObject, error.message, 0)

(***************************************************************************)
(* State.                                                                  *)
(***************************************************************************)
VARIABLES
  m,        \* the model Model() returned: table, definitions, _primaryKey, _hasDeletedBit
  self,     \* the record instance the caller holds
  db,       \* the table behind the collaborator: its rows and next generated id
  pc,       \* "idle", or "pending" while a storage call is in flight
  op,       \* the operation called last: its name, arguments and stage
  calls,    \* the storage calls that operation has issued
  outcome,  \* how that operation ended: threw, returned, resolved, rejected
  ops,      \* the number of operations the caller has started
  passed,   \* the query and options objects the caller passed, as they are now
  localKnex,  \* index.js: the knex object the library holds
  modeller,   \* index.js: the modeller object, whose Model is a stub or a factory
  knex        \* the knex object of the factory that made m, if the library's did

\* the state of index.js
lib == <<localKnex, modeller, knex>>
vars == <<m, self, db, pc, op, calls, outcome, ops, passed, localKnex, modeller, knex>>

\* an argument as the caller passes it: omitted, a plain object, or a string
Omitted == [kind |-> "omitted", obj |-> EmptyObject]
Object(o) == [kind |-> "object", obj |-> o]
AString == [kind |-> "string", obj |-> EmptyObject]
\* a falsy argument that is not undefined: 0, the empty string, false or null
AFalsy == [kind |-> "falsy", obj |-> EmptyObject]

NoOutcome == [kind |-> "none", error |-> NoError, value |-> NoValue]
Threw(error) == [kind |-> "threw", error |-> error, value |-> NoValue]
Returned(value) == [kind |-> "returned", error |-> NoError, value |-> value]
Pending == [kind |-> "pending", error |-> NoError, value |-> NoValue]
Resolved(value) == [kind |-> "resolved", error |-> NoError, value |-> value]
Rejected(error) == [kind |-> "rejected", error |-> error, value |-> NoValue]

\* before: the properties of the instance when the operation was called
Op(name, arg, arg2, stage, before) ==
  [name |-> name, arg |-> arg, arg2 |-> arg2, stage |-> stage, before |-> before]
NoOp == Op("none", Omitted, Omitted, "done", EmptyObject)

\* no query or options object is held by the caller
NoArgs == [query |-> Omitted, options |-> Omitted]

\* a knex object: none, one the application configured, or one connect() made
NoKnex == [kind |-> "null", id |-> 0]
Custom(i) == [kind |-> "custom", id |-> i]
Created(i) == [kind |-> "created", id |-> i]
\* modeller.Model before connect(), and require('./lib/model.js')(knex)
Stub == [kind |-> "stub", knex |-> NoKnex]
createModelClass(k) == [kind |-> "factory", knex |-> k]
\* index.js as loaded: var localKnex = null and the stub Model; nothing passed
Loaded ==
  /\ localKnex = NoKnex /\ modeller = [Model |-> Stub] /\ knex = NoKnex
  /\ passed = NoArgs

NoRecord == [live |-> FALSE, props |-> EmptyObject]

\* no call is in flight and the caller has operations left
Budget == pc = "idle" /\ ops < MaxOps
EmptyTable == [rows |-> <<>>, nextId |-> 1]

(***************************************************************************)
(* The schemas and arguments the model draws from.                         *)
(***************************************************************************)
\* field definitions for the type checker: every combination of type,
\* default, nullable, autoIncrement and validate
TypeDefs ==
  {Def(type, default, nullable, autoIncrement, FALSE, validate, "none") :
     type \in {"string", "positive"},
     default \in {NoDefault, Literal(Str(1)), Producer(Num(MaxNum))},
     nullable \in BOOLEAN, autoIncrement \in BOOLEAN,
     validate \in {"none", "isShort", "length"}}

\* the second field of a two-field schema has no validate function
TypeSchemas ==
  {<<Field("id", d)>> : d \in TypeDefs}
    \cup {<<Field("id", d), Field("name", e)>> :
            d \in TypeDefs, e \in {x \in TypeDefs : x.validate = "none"}}

\* a schema whose constructor transforms the value before checking it
TransformSchemas ==
  {<<Field("id", Def("positive", NoDefault, FALSE, FALSE, FALSE, "none", "inc"))>>}

\* the values of one property of a type-checker argument
TypeValues == [id |-> Values, name |-> {Str(1), Num(0), Null}]
TypeObjects == ObjectsOver({"id", "name"}, TypeValues)

(***************************************************************************)
(* Operations without storage.                                             *)
(***************************************************************************)
\* checkTypes(definitions, values), applied directly
CheckTypesCall(values) ==
  /\ Budget /\ m.defined
  /\ op' = Op("checkTypes", Object(values), Omitted, "done", EmptyObject)
  /\ outcome' = LET e == checkTypes(m.definitions, values)
                IN IF e = NoError THEN Returned(NoValue) ELSE Threw(e)
  /\ calls' = <<>>
  /\ ops' = ops + 1
  /\ UNCHANGED <<lib, passed, m, self, db, pc>>

\* m.isValid(obj)
isValid(defs, arg) ==
  IF arg.kind \in {"omitted", "falsy"} THEN FALSE
  ELSE checkTypes(defs, arg.obj) = NoError

IsValidCall(arg) ==
  /\ Budget /\ m.defined
  /\ op' = Op("isValid", arg, Omitted, "done", EmptyObject)
  /\ outcome' = Returned(Boolean(isValid(m.definitions, arg)))
  /\ calls' = <<>>
  /\ ops' = ops + 1
  /\ UNCHANGED <<lib, passed, m, self, db, pc>>

\* new m(values)
ConstructCall(arg) ==
  /\ Budget /\ m.defined
  /\ LET made == Construct(m.definitions, arg.obj)
     IN /\ outcome' = IF made.error = NoError THEN Returned(Record(made.props))
                      ELSE Threw(made.error)
        /\ self' = IF made.error = NoError
                   THEN [live |-> TRUE, props |-> made.props] ELSE self
  /\ op' = Op("new", arg, Omitted, "done", EmptyObject)
  /\ calls' = <<>>
  /\ ops' = ops + 1
  /\ UNCHANGED <<lib, passed, m, db, pc>>

(***************************************************************************)
(* Static operations on storage: get, getOne, deleteWhere.                 *)
(***************************************************************************)
\* a value as a condition: if (options.orderBy), options.asc ? ... : ...
ToBoolean(v) ==
  IF v.t \in {"undefined", "null"} THEN FALSE
  ELSE IF v.t \in {"number", "boolean"} THEN v.n # 0
  ELSE v # Name("")

\* the defaults without asc: true
MutDefaultsWithoutAsc(mdl) ==
  IF Truthy(mdl.primaryKey)
  THEN [limit |-> Num(DefaultLimit), offset |-> Num(DefaultOffset),
        orderBy |-> Name(mdl.primaryKey)]
  ELSE [limit |-> Num(DefaultLimit), offset |-> Num(DefaultOffset)]

\* var defaults: limit and offset, and orderBy and asc with a primary key
Defaults(mdl) ==
  IF Truthy(mdl.primaryKey)
  THEN [limit |-> Num(DefaultLimit), offset |-> Num(DefaultOffset),
        orderBy |-> Name(mdl.primaryKey), asc |-> Bool(TRUE)]
  ELSE [limit |-> Num(DefaultLimit), offset |-> Num(DefaultOffset)]

\* _.defaults(options, defaults): options with every undefined key of
\* defaults filled in
WithDefaults(options, defaults) ==
  [k \in DOMAIN options \cup DOMAIN defaults |->
     IF k \in DOMAIN defaults /\ Get(options, k) = Undefined
     THEN defaults[k] ELSE options[k]]

\* the caller's object after the operation wrote into it; query || {} and
\* options || {} are new objects when the caller passed none
Written(arg, obj) == IF arg.kind = "object" THEN Object(obj) ELSE arg

\* query && !check.object(query)
BadOptional(arg) == arg.kind = "string"
\* !check.object(query)
NotObject(arg) == arg.kind # "object"

\* the filter forced whatever the caller's query says
MutAlwaysNotDeleted(mdl, query) ==
  IF mdl.hasDeletedBit THEN Put(query, "deleted", Num(0)) ELSE query

\* the soft-delete filter of get and getOne
WithNotDeleted(mdl, query) ==
  IF mdl.hasDeletedBit /\ Get(query, "deleted") = Undefined
  THEN Put(query, "deleted", Num(0))
  ELSE query

\* m.get(query, options) up to statement.select(): the error thrown, or the
\* call, and the caller's query and options objects afterwards
get(mdl, query, options) ==
  IF BadOptional(query) \/ BadOptional(options)
  THEN [error |-> NewTypeError(<<(<<"Arguments to get() must be of type object">>)>>),
        call |-> <<>>, query |-> query, options |-> options]
  ELSE LET filled == WithDefaults(options.obj, Defaults(mdl))
           sent == WithNotDeleted(mdl, query.obj)
           ordered == ToBoolean(Get(filled, "orderBy"))
       IN [error |-> NoError,
           call |-> <<Call("select", sent, EmptyObject,
                           filled["limit"], filled["offset"],
                           IF ordered THEN filled["orderBy"].s ELSE NoKey,
                           IF ordered /\ ~ToBoolean(Get(filled, "asc"))
                           THEN "desc" ELSE "asc")>>,
           query |-> Written(query, sent),
           options |-> Written(options, filled)]

\* m.getOne(query) up to select()
getOne(mdl, query) ==
  IF BadOptional(query)
  THEN [error |-> NewTypeError(<<(<<"Argument to getOne() must be of type object">>)>>),
        call |-> <<>>, query |-> query, options |-> Omitted]
  ELSE [error |-> NoError,
        call |-> <<Call("select", WithNotDeleted(mdl, query.obj), EmptyObject,
                        Undefined, Undefined, NoKey, "asc")>>,
        query |-> Written(query, WithNotDeleted(mdl, query.obj)),
        options |-> Omitted]

\* deleteWhere filtering as get does: deleted = 0 only when the query has none
MutDeleteWhereAsGet(mdl, query) ==
  IF NotObject(query)
  THEN [error |-> NewTypeError(<<(<<"deleteWhere() requires an argument of type ",
                                   "object">>)>>),
        call |-> <<>>, query |-> query, options |-> Omitted]
  ELSE IF mdl.hasDeletedBit
  THEN [error |-> NoError,
        call |-> <<Call("update", WithNotDeleted(mdl, query.obj),
                        [deleted |-> Num(1)], Undefined, Undefined, NoKey, "asc")>>,
        query |-> Object(WithNotDeleted(mdl, query.obj)), options |-> Omitted]
  ELSE [error |-> NoError,
        call |-> <<Call("delete", query.obj, EmptyObject,
                        Undefined, Undefined, NoKey, "asc")>>,
        query |-> query, options |-> Omitted]

\* m.deleteWhere(query) up to update() or delete()
deleteWhere(mdl, query) ==
  IF NotObject(query)
  THEN [error |-> NewTypeError(<<(<<"deleteWhere() requires an argument of type ",
                                   "object">>)>>),
        call |-> <<>>, query |-> query, options |-> Omitted]
  ELSE IF mdl.hasDeletedBit
  THEN [error |-> NoError,
        call |-> <<Call("update", Put(query.obj, "deleted", Num(0)),
                        [deleted |-> Num(1)], Undefined, Undefined, NoKey, "asc")>>,
        query |-> Object(Put(query.obj, "deleted", Num(0))), options |-> Omitted]
  ELSE [error |-> NoError,
        call |-> <<Call("delete", query.obj, EmptyObject,
                        Undefined, Undefined, NoKey, "asc")>>,
        query |-> query, options |-> Omitted]

\* a static operation is called: it throws, or its call is in flight
StaticCall(name, query, options, built) ==
  /\ Budget /\ m.defined
  /\ op' = Op(name, query, options, IF built.error = NoError THEN name ELSE "done",
            EmptyObject)
  /\ calls' = built.call
  /\ outcome' = IF built.error = NoError THEN Pending ELSE Threw(built.error)
  /\ pc' = IF built.error = NoError THEN "pending" ELSE "idle"
  /\ passed' = [query |-> built.query, options |-> built.options]
  /\ ops' = ops + 1
  /\ UNCHANGED <<lib, m, self, db>>

GetCall(query, options) == StaticCall("get", query, options, get(m, query, options))
GetOneCall(query) == StaticCall("getOne", query, Omitted, getOne(m, query))
DeleteWhereCall(query) ==
  StaticCall("deleteWhere", query, Omitted, deleteWhere(m, query))

(***************************************************************************)
(* Instance operations: field assignment, insert, update, delete.          *)
(***************************************************************************)
\* instance[key] = value, by the caller
AssignCall(key, value) ==
  /\ Budget /\ self.live
  /\ self' = [self EXCEPT !.props = Put(self.props, key, value)]
  /\ op' = Op("assign", Object([k \in {key} |-> value]), Omitted, "done", self.props)
  /\ calls' = <<>>
  /\ outcome' = Returned(NoValue)
  /\ ops' = ops + 1
  /\ UNCHANGED <<lib, passed, m, db, pc>>

\* insert() without the _.each: nothing is deleted
MutKeepAutoIncrement(defs, props) == props

\* the _.each of insert(): delete self[key] for every autoIncrement field
DeleteAutoIncrement(defs, props) ==
  [k \in {x \in DOMAIN props :
            ~(HasOwnProperty(defs, x) /\ DefOf(defs, x).autoIncrement)} |-> props[k]]

\* instance.insert() up to knex(table).insert(self)
InsertCall ==
  /\ Budget /\ self.live
  /\ LET stripped == DeleteAutoIncrement(m.definitions, self.props)
     IN /\ self' = [self EXCEPT !.props = stripped]
        /\ calls' = <<Call("insert", EmptyObject, stripped,
                           Undefined, Undefined, NoKey, "asc")>>
  /\ op' = Op("insert", Omitted, Omitted, "insert", self.props)
  /\ outcome' = Pending
  /\ pc' = "pending"
  /\ ops' = ops + 1
  /\ UNCHANGED <<lib, passed, m, db>>

\* update() refusing a model without a primary key, as delete() does
MutUpdateNeedsKey(mdl, props, arg) ==
  LET merged == Extend(props, arg.obj)
      error == checkTypes(mdl.definitions, merged)
      whereClause == [k \in {mdl.primaryKey} |-> Get(props, mdl.primaryKey)]
  IN IF error # NoError THEN [error |-> error, call |-> <<>>]
     ELSE IF ~Truthy(mdl.primaryKey)
     THEN [error |-> NewError(<<(<<"Cannot update">>)>>), call |-> <<>>]
     ELSE [error |-> NoError,
           call |-> <<Call("update", whereClause, Pick(mdl.definitions, merged),
                           Undefined, Undefined, NoKey, "asc")>>]

\* update() without checkTypes(definitions, updateWith)
MutUpdateUnchecked(mdl, props, arg) ==
  LET merged == Extend(props, arg.obj)
      whereClause == [k \in {mdl.primaryKey} |-> Get(props, mdl.primaryKey)]
  IN [error |-> NoError,
      call |-> <<Call("update", whereClause, Pick(mdl.definitions, merged),
                      Undefined, Undefined, NoKey, "asc")>>]

\* update() taking the primary key of whereClause from the merged values
MutUpdateByNewKey(mdl, props, arg) ==
  LET merged == Extend(props, arg.obj)
      error == checkTypes(mdl.definitions, merged)
      whereClause == [k \in {mdl.primaryKey} |-> Get(merged, mdl.primaryKey)]
  IN IF error # NoError THEN [error |-> error, call |-> <<>>]
     ELSE [error |-> NoError,
           call |-> <<Call("update", whereClause, Pick(mdl.definitions, merged),
                           Undefined, Undefined, NoKey, "asc")>>]

\* instance.update(updateWith) up to knex(table).where(whereClause).update(updateWith)
update(mdl, props, arg) ==
  LET merged == Extend(props, arg.obj)
      error == checkTypes(mdl.definitions, merged)
      whereClause == [k \in {mdl.primaryKey} |-> Get(props, mdl.primaryKey)]
  IN IF error # NoError THEN [error |-> error, call |-> <<>>]
     ELSE [error |-> NoError,
           call |-> <<Call("update", whereClause, Pick(mdl.definitions, merged),
                           Undefined, Undefined, NoKey, "asc")>>]

\* update() extending the instance itself, not a clone of it
MutUpdateInPlace(arg) ==
  /\ Budget /\ self.live
  /\ LET built == update(m, self.props, arg)
     IN /\ calls' = built.call
        /\ op' = Op("update", arg, Omitted,
                    IF built.error = NoError THEN "update" ELSE "done", self.props)
        /\ outcome' = IF built.error = NoError THEN Pending ELSE Threw(built.error)
        /\ pc' = IF built.error = NoError THEN "pending" ELSE "idle"
  /\ self' = [self EXCEPT !.props = Extend(self.props, arg.obj)]
  /\ ops' = ops + 1
  /\ UNCHANGED <<lib, passed, m, db>>

UpdateCall(arg) ==
  /\ Budget /\ self.live
  /\ LET built == update(m, self.props, arg)
     IN /\ calls' = built.call
        /\ op' = Op("update", arg, Omitted,
                    IF built.error = NoError THEN "update" ELSE "done", self.props)
        /\ outcome' = IF built.error = NoError THEN Pending ELSE Threw(built.error)
        /\ pc' = IF built.error = NoError THEN "pending" ELSE "idle"
  /\ ops' = ops + 1
  /\ UNCHANGED <<lib, passed, m, self, db>>

\* instance.delete() up to update({deleted: 1}) or del()
delete(mdl, props) ==
  IF Truthy(mdl.primaryKey)
  THEN LET whereClause == [k \in {mdl.primaryKey} |-> Get(props, mdl.primaryKey)]
       IN [error |-> NoError,
           call |-> IF mdl.hasDeletedBit
                    THEN <<Call("update", whereClause, [deleted |-> Num(1)],
                                Undefined, Undefined, NoKey, "asc")>>
                    ELSE <<Call("delete", whereClause, EmptyObject,
                                Undefined, Undefined, NoKey, "asc")>>]
  ELSE [error |-> NewError(<<(<<"Cannot delete">>), <<mdl.table>>,
                             (<<"without primary key definition">>)>>),
        call |-> <<>>]

\* delete() setting the instance's own deleted field as well
MutDeleteMarksInstance ==
  /\ Budget /\ self.live
  /\ LET built == delete(m, self.props)
     IN /\ calls' = built.call
        /\ op' = Op("delete", Omitted, Omitted,
                    IF built.error = NoError THEN "delete" ELSE "done", self.props)
        /\ outcome' = IF built.error = NoError THEN Pending ELSE Threw(built.error)
        /\ pc' = IF built.error = NoError THEN "pending" ELSE "idle"
  /\ self' = IF m.hasDeletedBit
             THEN [self EXCEPT !.props = Put(self.props, "deleted", Num(1))]
             ELSE self
  /\ ops' = ops + 1
  /\ UNCHANGED <<lib, passed, m, db>>

DeleteCall ==
  /\ Budget /\ self.live
  /\ LET built == delete(m, self.props)
     IN /\ calls' = built.call
        /\ op' = Op("delete", Omitted, Omitted,
                    IF built.error = NoError THEN "delete" ELSE "done", self.props)
        /\ outcome' = IF built.error = NoError THEN Pending ELSE Threw(built.error)
        /\ pc' = IF built.error = NoError THEN "pending" ELSE "idle"
  /\ ops' = ops + 1
  /\ UNCHANGED <<lib, passed, m, self, db>>

(***************************************************************************)
(* The collaborator settles the call in flight and the operation's         *)
(* callback runs.                                                          *)
(***************************************************************************)
LastCall == calls[Len(calls)]
\* the call in flight resolved to result
Settled(result) == [calls EXCEPT ![Len(calls)].result = result]

\* the callback without query[m._primaryKey] = insertId
MutRefetchAny(mdl, insertId) == getOne(mdl, Object(EmptyObject))

\* the callback of insert() on a model with a primary key: m.getOne(query)
\* with query[m._primaryKey] = result[0]
insertCallback(mdl, insertId) ==
  getOne(mdl, Object([k \in {mdl.primaryKey} |-> Num(insertId)]))

\* a rejected insert going on to its callback all the same
MutRejectsThenRefetches(fault) ==
  /\ pc = "pending"
  /\ IF op.stage = "insert" /\ Truthy(m.primaryKey)
     THEN /\ calls' = Settled(Fault(fault)) \o insertCallback(m, 1).call
          /\ op' = [op EXCEPT !.stage = "getOne"]
          /\ outcome' = Pending
          /\ pc' = "pending"
     ELSE /\ calls' = Settled(Fault(fault))
          /\ outcome' = Rejected(fault)
          /\ op' = [op EXCEPT !.stage = "done"]
          /\ pc' = "idle"
  /\ UNCHANGED <<lib, passed, m, self, db, ops>>

\* the collaborator rejects the call in flight with fault: no callback runs,
\* and the operation's promise rejects with that error
Rejects(fault) ==
  /\ pc = "pending"
  /\ calls' = Settled(Fault(fault))
  /\ outcome' = Rejected(fault)
  /\ op' = [op EXCEPT !.stage = "done"]
  /\ pc' = "idle"
  /\ UNCHANGED <<lib, passed, m, self, db, ops>>

\* m.raw(query, bindings): knex.raw(query, bindings) behind a deferred
raw(query, bindings) ==
  [error |-> NoError,
   call |-> <<Call("raw", EmptyObject, EmptyObject, Undefined, Undefined, NoKey, "asc")>>,
   query |-> query, options |-> bindings]

RawCall(query, bindings) == StaticCall("raw", query, bindings, raw(query, bindings))

\* knex.raw resolves to data, the rows and the columns: deferred.resolve(data[0])
RawResolves ==
  /\ pc = "pending" /\ op.stage = "raw"
  /\ \E n \in 0..Len(db.rows) :
       LET data == <<SubSeq(db.rows, 1, n), <<>> >>
       IN /\ calls' = Settled(Value("data", EmptyObject, data, 0))
          /\ outcome' = Resolved(Rows(data[1]))
  /\ op' = [op EXCEPT !.stage = "done"]
  /\ pc' = "idle"
  /\ UNCHANGED <<lib, passed, m, self, db, ops>>

\* the collaborator rejects with one error
KnexRejects == Rejects(StorageFault)

\* insert resolves: with a primary key the callback calls m.getOne
InsertResolves ==
  /\ pc = "pending" /\ op.stage = "insert"
  /\ CanInsert(db, m.definitions)
  /\ LET done == KnexInsert(db, m.definitions, LastCall.data)
     IN /\ db' = [rows |-> done.rows, nextId |-> done.nextId]
        /\ IF Truthy(m.primaryKey)
           THEN /\ calls' = Settled(Raw(done.insertId))
                             \o insertCallback(m, done.insertId).call
                /\ op' = [op EXCEPT !.stage = "getOne"]
                /\ outcome' = Pending
                /\ pc' = "pending"
           ELSE /\ outcome' = Resolved(Raw(done.insertId))
                /\ op' = [op EXCEPT !.stage = "done"]
                /\ pc' = "idle"
                /\ calls' = Settled(Raw(done.insertId))
  /\ UNCHANGED <<lib, passed, m, self, ops>>

\* the select of getOne resolves: new m(rows[0]), or null
GetOneResolves ==
  /\ pc = "pending" /\ op.stage = "getOne"
  /\ Executable(LastCall)
  /\ LET rows == KnexSelect(db.rows, LastCall)
     IN /\ outcome' = IF rows = <<>> THEN Resolved(NullValue)
                      ELSE LET made == Construct(m.definitions, rows[1])
                           IN IF made.error = NoError THEN Resolved(Record(made.props))
                              ELSE Rejected(made.error)
        /\ calls' = Settled(Rows(rows))
  /\ op' = [op EXCEPT !.stage = "done"]
  /\ pc' = "idle"
  /\ UNCHANGED <<lib, passed, m, self, db, ops>>

\* the select of get resolving to the rows themselves, not to records
MutGetResolvesRows ==
  /\ pc = "pending" /\ op.stage = "get"
  /\ Executable(LastCall)
  /\ LET rows == KnexSelect(db.rows, LastCall)
     IN /\ outcome' = Resolved(Value("records", EmptyObject, rows, 0))
        /\ calls' = Settled(Rows(rows))
  /\ op' = [op EXCEPT !.stage = "done"]
  /\ pc' = "idle"
  /\ UNCHANGED <<lib, passed, m, self, db, ops>>

\* the select of get resolves: rows.map(new m(row))
GetResolves ==
  /\ pc = "pending" /\ op.stage = "get"
  /\ Executable(LastCall)
  /\ LET rows == KnexSelect(db.rows, LastCall)
         made == [i \in 1..Len(rows) |-> Construct(m.definitions, rows[i])]
         bad == {i \in 1..Len(rows) : made[i].error # NoError}
     IN /\ outcome' = IF bad = {}
                      THEN Resolved(Value("records", EmptyObject,
                                          [i \in 1..Len(rows) |-> made[i].props], 0))
                      ELSE Rejected(made[CHOOSE i \in bad : \A j \in bad : i <= j].error)
        /\ calls' = Settled(Rows(rows))
  /\ op' = [op EXCEPT !.stage = "done"]
  /\ pc' = "idle"
  /\ UNCHANGED <<lib, passed, m, self, db, ops>>

\* the update of instance.update resolves: new m(updateWith) is applied to self
UpdateResolves ==
  /\ pc = "pending" /\ op.stage = "update"
  /\ Executable(LastCall)
  /\ db' = [db EXCEPT !.rows = KnexUpdate(db.rows, LastCall.where, LastCall.data)]
  /\ LET updated == Construct(m.definitions, LastCall.data)
     IN IF updated.error = NoError
        THEN /\ self' = [self EXCEPT !.props = applyValues(self.props, updated.props)]
             /\ outcome' = Resolved(Record(updated.props))
        ELSE /\ self' = self
             /\ outcome' = Rejected(updated.error)
  /\ calls' = Settled(Raw(Len(SelectSeq(db.rows, LAMBDA row :
                                             Matches(row, LastCall.where)))))
  /\ op' = [op EXCEPT !.stage = "done"]
  /\ pc' = "idle"
  /\ UNCHANGED <<lib, passed, m, ops>>

\* the update or delete of instance.delete or deleteWhere resolves
DeleteResolves ==
  /\ pc = "pending" /\ op.stage \in {"delete", "deleteWhere"}
  /\ Executable(LastCall)
  /\ LET hits == Len(SelectSeq(db.rows, LAMBDA row : Matches(row, LastCall.where)))
     IN /\ outcome' = Resolved(Raw(hits))
        /\ calls' = Settled(Raw(hits))
  /\ db' = [db EXCEPT !.rows =
              IF LastCall.method = "update"
              THEN KnexUpdate(db.rows, LastCall.where, LastCall.data)
              ELSE KnexDelete(db.rows, LastCall.where)]
  /\ op' = [op EXCEPT !.stage = "done"]
  /\ pc' = "idle"
  /\ UNCHANGED <<lib, passed, m, self, ops>>

(***************************************************************************)
(* The type checker and the constructor over every schema of TypeSchemas.  *)
(***************************************************************************)
\* one call on each schema
InitTypes ==
  /\ \E defs \in TypeSchemas \cup TransformSchemas : m = Model(TableNamed("TestModel"), Fields(defs)).m
  /\ self = NoRecord /\ db = EmptyTable /\ pc = "idle" /\ ops = 0
  /\ op = NoOp /\ calls = <<>> /\ outcome = NoOutcome /\ Loaded

NextTypes ==
  \/ \E values \in TypeObjects : ops = 0 /\ CheckTypesCall(values)
  \/ \E arg \in {Omitted, AString} \cup {Object(o) : o \in TypeObjects} :
       ops = 0 /\ IsValidCall(arg)
  \/ \E arg \in {Omitted} \cup {Object(o) : o \in TypeObjects} :
       ops = 0 /\ ConstructCall(arg)

SpecTypes == InitTypes /\ [][NextTypes]_vars

(***************************************************************************)
(* The model in use: a schema of CrudSchemas, one record instance, the     *)
(* table, and one operation at a time.                                     *)
(***************************************************************************)
IdDefs ==
  {Def("positive", NoDefault, FALSE, autoIncrement, TRUE, "none", "none") :
     autoIncrement \in BOOLEAN}
NameDefs ==
  {Def("string", NoDefault, FALSE, FALSE, FALSE, "none", "none"),
   Def("string", Literal(Str(1)), FALSE, FALSE, FALSE, "none", "none"),
   Def("string", NoDefault, FALSE, FALSE, FALSE, "none", "inc")}
DeletedDefs == {Def("number", NoDefault, TRUE, FALSE, FALSE, "none", "none")}

\* the one-field schemas, and no field
Optional(key, defs) == {<<>>} \cup {<<Field(key, d)>> : d \in defs}

CrudSchemas ==
  {a \o b \o c : a \in Optional("id", IdDefs), b \in Optional("name", NameDefs),
                 c \in Optional("deleted", DeletedDefs)}

ConstructArgs ==
  {Omitted} \cup
  {Object(o) : o \in ObjectsOver({"id", "name", "deleted"},
                                 [id |-> {Num(1)}, name |-> {Str(1)},
                                  deleted |-> {Num(0), Num(1)}])}
AssignValues == [name |-> {Num(0)}]
UpdateArgs ==
  {Omitted, Object([name |-> Str(MaxNum)]), Object([name |-> Num(0)]),
   Object([id |-> Num(MaxNum)])}
Queries ==
  {Omitted, AString, AFalsy} \cup
  {Object(o) : o \in ObjectsOver({"name", "deleted"},
                                 [name |-> {Str(1)},
                                  deleted |-> {Num(0), Num(1), Undefined}])}
Options == {Omitted, AString, AFalsy, Object(EmptyObject)}

\* the rows the table may hold before the first operation
StoredRows ==
  {[id |-> Num(1), name |-> Str(1), deleted |-> Num(0)],
   [id |-> Num(1), name |-> Str(1), deleted |-> Num(1)]}
\* the rows of the tables the static operations run on
QueryRows ==
  {[id |-> Num(id), name |-> Str(1), deleted |-> Num(deleted)] :
     id \in 1..MaxNum, deleted \in {0, 1}}
Tables(defs) ==
  {EmptyTable} \cup
  {[rows |-> <<[k \in Keys(defs) \cap DOMAIN row |-> row[k]]>>, nextId |-> MaxNum] :
     row \in StoredRows}

Init ==
  /\ \E defs \in CrudSchemas :
       /\ m = Model(TableNamed("TestModel"), Fields(defs)).m
       /\ db \in Tables(defs)
  /\ self = NoRecord /\ pc = "idle" /\ ops = 0
  /\ op = NoOp /\ calls = <<>> /\ outcome = NoOutcome /\ Loaded

Next ==
  \/ \E arg \in ConstructArgs : ConstructCall(arg)
  \/ \E key \in DOMAIN AssignValues : \E value \in AssignValues[key] :
       AssignCall(key, value)
  \/ InsertCall
  \/ \E arg \in UpdateArgs : UpdateCall(arg)
  \/ DeleteCall
  \/ InsertResolves
  \/ GetOneResolves
  \/ UpdateResolves
  \/ DeleteResolves
  \/ KnexRejects

Spec == Init /\ [][Next]_vars

(***************************************************************************)
(* The static operations: one get, getOne or deleteWhere on a table of     *)
(* QueryTables.                                                            *)
(***************************************************************************)
\* the tables of at most MaxRows rows of StoredRows
RECURSIVE RowLists(_)
RowLists(n) ==
  IF n = 0 THEN {<<>>}
  ELSE RowLists(n - 1) \cup
       {Append(rows, row) : rows \in {r \in RowLists(n - 1) : Len(r) = n - 1},
                            row \in QueryRows}

QueryTables(defs) ==
  {[rows |-> [i \in 1..Len(rows) |-> [k \in Keys(defs) \cap DOMAIN rows[i] |-> rows[i][k]]],
    nextId |-> MaxNum] : rows \in RowLists(MaxRows)}

InitQuery ==
  /\ \E defs \in CrudSchemas :
       /\ m = Model(TableNamed("TestModel"), Fields(defs)).m
       /\ db \in QueryTables(defs)
  /\ self = NoRecord /\ pc = "idle" /\ ops = 0
  /\ op = NoOp /\ calls = <<>> /\ outcome = NoOutcome /\ Loaded

NextQuery ==
  \/ \E query \in Queries : \E options \in Options : ops = 0 /\ GetCall(query, options)
  \/ \E query \in Queries : ops = 0 /\ GetOneCall(query)
  \/ \E query \in Queries : ops = 0 /\ DeleteWhereCall(query)
  \/ GetOneResolves
  \/ GetResolves
  \/ DeleteResolves
  \/ KnexRejects

SpecQuery == InitQuery /\ [][NextQuery]_vars

(***************************************************************************)
(* Paging and ordering: one get(query, options) on a table of GetTables.   *)
(***************************************************************************)
GetSchemas ==
  {a \o b :
     a \in Optional("id", {Def("positive", NoDefault, FALSE, FALSE, TRUE, "none", "none")}),
     b \in Optional("name", {Def("string", NoDefault, FALSE, FALSE, FALSE, "none", "none")})}

\* rows whose names are in the reverse order of their ids
GetRows == {[id |-> Num(id), name |-> Str(MaxNum + 1 - id)] : id \in 1..MaxNum}

RECURSIVE GetRowLists(_)
GetRowLists(n) ==
  IF n = 0 THEN {<<>>}
  ELSE GetRowLists(n - 1) \cup
       {Append(rows, row) : rows \in {r \in GetRowLists(n - 1) : Len(r) = n - 1},
                            row \in GetRows}

GetTables(defs) ==
  {[rows |-> [i \in 1..Len(rows) |-> [k \in Keys(defs) \cap DOMAIN rows[i] |-> rows[i][k]]],
    nextId |-> MaxNum] : rows \in GetRowLists(MaxRows)}

GetOptions ==
  {Omitted} \cup
  {Object(o) : o \in ObjectsOver({"limit", "offset", "orderBy", "asc"},
                                 [limit |-> {Num(1), Undefined}, offset |-> {Num(1)},
                                  orderBy |-> {Name("name"), Name("")},
                                  asc |-> {Bool(TRUE), Bool(FALSE)}])}

InitGet ==
  /\ \E defs \in GetSchemas :
       /\ m = Model(TableNamed("TestModel"), Fields(defs)).m
       /\ db \in GetTables(defs)
  /\ self = NoRecord /\ pc = "idle" /\ ops = 0
  /\ op = NoOp /\ calls = <<>> /\ outcome = NoOutcome /\ Loaded

NextGet ==
  \/ \E query \in {Omitted, Object(EmptyObject)} : \E options \in GetOptions :
       ops = 0 /\ GetCall(query, options)
  \/ GetResolves
  \/ KnexRejects

SpecGet == InitGet /\ [][NextGet]_vars

(***************************************************************************)
(* The library: connect(config), modeller.Model and getKnex of index.js.   *)
(***************************************************************************)
\* connect() without an argument
NoConfig == [kind |-> "undefined", knex |-> NoKnex, credentials |-> FALSE]
\* a configuration object: its knex property, if any, and whether user,
\* password, database and dialect are all given
Config(k, credentials) == [kind |-> "object", knex |-> k, credentials |-> credentials]
ConnectConfigs ==
  {NoConfig} \cup {Config(k, c) : k \in {NoKnex, Custom(1), Custom(2)}, c \in BOOLEAN}

MissingCredentials ==
  NewError(<<(<<"knex-modeller.connect() requires a configuration ",
               "object which specifies user, password, database, and dialect.">>)>>)
NeedToConnect ==
  NewError(<<(<<"Need to run modeller.connect() before creating a model">>)>>)

\* connect(config): the error thrown, and localKnex and modeller.Model
\* afterwards; fresh is the object require('knex')(...) makes
connect(config, fresh) ==
  IF config.kind = "undefined"
  THEN [error |-> NewTypeError(<<(<<"Cannot read property 'knex' of undefined">>)>>),
        localKnex |-> localKnex, Model |-> modeller.Model]
  ELSE IF config.knex # NoKnex
  THEN [error |-> NoError, localKnex |-> config.knex, Model |-> modeller.Model]
  ELSE IF ~config.credentials
  THEN [error |-> MissingCredentials, localKnex |-> localKnex, Model |-> modeller.Model]
  ELSE [error |-> NoError, localKnex |-> fresh, Model |-> createModelClass(fresh)]

\* modeller.getKnex()
modellerGetKnex == localKnex
\* m.getKnex(): the knex of the factory's closure
getKnex == knex

ConnectCall(config) ==
  /\ Budget
  /\ LET done == connect(config, Created(ops + 1))
     IN /\ localKnex' = done.localKnex
        /\ modeller' = [modeller EXCEPT !.Model = done.Model]
        /\ outcome' = IF done.error = NoError THEN Returned(NoValue)
                      ELSE Threw(done.error)
  /\ op' = Op("connect", config, Omitted, "done", EmptyObject)
  /\ calls' = <<>>
  /\ ops' = ops + 1
  /\ UNCHANGED <<knex, passed, m, self, db, pc>>

\* modeller.Model(table, definitions): the stub, or the factory's Model
ModellerModelCall(table, definitions) ==
  /\ Budget
  /\ IF modeller.Model = Stub
     THEN /\ outcome' = Threw(NeedToConnect)
          /\ UNCHANGED <<m, knex>>
     ELSE LET made == Model(table, definitions)
          IN /\ outcome' = IF made.error = NoError THEN Returned(NoValue)
                           ELSE Threw(made.error)
             /\ m' = IF made.error = NoError THEN made.m ELSE m
             /\ knex' = IF made.error = NoError THEN modeller.Model.knex ELSE knex
  /\ op' = Op("modeller.Model", definitions, table, "done", EmptyObject)
  /\ calls' = <<>>
  /\ ops' = ops + 1
  /\ UNCHANGED <<localKnex, modeller, passed, self, db, pc>>

InitConnect ==
  /\ m = NoModel /\ self = NoRecord /\ db = EmptyTable /\ pc = "idle" /\ ops = 0
  /\ op = NoOp /\ calls = <<>> /\ outcome = NoOutcome /\ Loaded

NextConnect ==
  \/ \E config \in ConnectConfigs : ConnectCall(config)
  \/ \E table \in {TableNamed("TestModel"), NoTable} :
       \E defs \in Optional("id", IdDefs) : ModellerModelCall(table, Fields(defs))

SpecConnect == InitConnect /\ [][NextConnect]_vars

(***************************************************************************)
(* Rejections: one operation on an instance that was constructed, each     *)
(* call of which the collaborator resolves or rejects.                     *)
(***************************************************************************)
\* the instances new m(arg) makes of the arguments of ConstructArgs
Instances(defs) ==
  {[live |-> TRUE, props |-> Construct(defs, arg.obj).props] :
     arg \in {a \in ConstructArgs : Construct(defs, a.obj).error = NoError}}

InitFaults ==
  /\ \E defs \in CrudSchemas :
       /\ m = Model(TableNamed("TestModel"), Fields(defs)).m
       /\ db \in Tables(defs)
       /\ self \in Instances(defs)
  /\ pc = "idle" /\ ops = 0
  /\ op = NoOp /\ calls = <<>> /\ outcome = NoOutcome /\ Loaded

NextFaults ==
  \/ ops = 0 /\ GetCall(Object(EmptyObject), Omitted)
  \/ ops = 0 /\ GetOneCall(Object(EmptyObject))
  \/ ops = 0 /\ DeleteWhereCall(Object(EmptyObject))
  \/ ops = 0 /\ RawCall(AString, Omitted)
  \/ ops = 0 /\ InsertCall
  \/ \E arg \in UpdateArgs : ops = 0 /\ UpdateCall(arg)
  \/ ops = 0 /\ DeleteCall
  \/ InsertResolves
  \/ GetOneResolves
  \/ GetResolves
  \/ UpdateResolves
  \/ DeleteResolves
  \/ RawResolves
  \/ \E fault \in Faults : Rejects(fault)

SpecFaults == InitFaults /\ [][NextFaults]_vars

(***************************************************************************)
(* Model definition: one Model(table, definitions) call on a schema of     *)
(* DefineSchemas.                                                          *)
(***************************************************************************)
DefineDefs ==
  {Def("positive", NoDefault, FALSE, autoIncrement, primaryId, "none", "none") :
     autoIncrement \in BOOLEAN, primaryId \in BOOLEAN}
DefineKeys == {"", "id", "name", "deleted"}

\* the schemas of at most n fields with distinct keys
RECURSIVE SchemasUpTo(_)
SchemasUpTo(n) ==
  IF n = 0 THEN {<<>>}
  ELSE SchemasUpTo(n - 1) \cup
       {Append(defs, Field(key, d)) :
          defs \in {x \in SchemasUpTo(n - 1) : Len(x) = n - 1},
          key \in DefineKeys, d \in DefineDefs}

DefineSchemas == {defs \in SchemasUpTo(MaxFields) : Cardinality(Keys(defs)) = Len(defs)}

\* the table names, reserved keys and overrides Model() is called with
DefineTables == {TableNamed("TestModel"), TableNamed(""), NumericTable, NoTable}
DefineStatics == {Absent, Primitive(Num(0)), Primitive(Num(1)), Mapping(<<>>)}
NotAFunction == "5"
OverrideKeys == {"get", "insert", "deleteWhere", "isValid"}
OverrideProps == {"F", NotAFunction}

\* the _overrides objects of at most n entries
RECURSIVE OverridesUpTo(_)
OverridesUpTo(n) ==
  IF n = 0 THEN {<<>>}
  ELSE OverridesUpTo(n - 1) \cup
       {Append(entries, Override(key, prop)) :
          entries \in {x \in OverridesUpTo(n - 1) : Len(x) = n - 1},
          key \in OverrideKeys, prop \in OverrideProps}

DefineOverrides ==
  {Absent, Primitive(Num(1))} \cup
  {Mapping(entries) :
     entries \in {x \in OverridesUpTo(MaxOverrides) :
                    Cardinality({x[i].key : i \in 1..Len(x)}) = Len(x)}}

PrimaryId == Field("id", Def("positive", NoDefault, FALSE, TRUE, TRUE, "none", "none"))

\* the argument pairs of Model(): every kind of table and schema argument,
\* every schema of plain fields, and every combination of reserved keys
DefineArguments ==
  ({<<table, definitions>> :
      table \in DefineTables,
      definitions \in {NoSchema, NotASchema, Fields(<<>>), Fields(<<PrimaryId>>)}})
  \cup {<<TableNamed("TestModel"), Fields(defs)>> : defs \in DefineSchemas}
  \cup {<<TableNamed("TestModel"), Schema(fields, statics, overrides)>> :
          fields \in {<<>>, <<PrimaryId>>},
          statics \in DefineStatics, overrides \in DefineOverrides}

\* the values the defined model is then asked about
DefineValues ==
  {Omitted, Object(EmptyObject), Object([id |-> Num(1)]),
   Object([_statics |-> Num(1)]), Object([_overrides |-> Num(1)])}

\* Model(table, definitions), called by the application
ModelCall(table, definitions) ==
  /\ Budget /\ ~m.defined
  /\ LET made == Model(table, definitions)
     IN /\ m' = made.m
        /\ outcome' = IF made.error = NoError THEN Returned(NoValue)
                      ELSE Threw(made.error)
  /\ op' = Op("Model", definitions, table, "done", EmptyObject)
  /\ calls' = <<>>
  /\ ops' = ops + 1
  /\ UNCHANGED <<lib, passed, self, db, pc>>

\* m.hasField(key), called by the application
HasFieldCall(key) ==
  /\ Budget /\ m.defined
  /\ op' = Op("hasField", key, Omitted, "done", EmptyObject)
  /\ outcome' = Returned(Boolean(hasField(m, key)))
  /\ calls' = <<>>
  /\ ops' = ops + 1
  /\ UNCHANGED <<lib, passed, m, self, db, pc>>

InitDefine ==
  /\ m = NoModel /\ self = NoRecord /\ db = EmptyTable /\ pc = "idle" /\ ops = 0
  /\ op = NoOp /\ calls = <<>> /\ outcome = NoOutcome /\ Loaded

NextDefine ==
  \/ \E args \in DefineArguments : ops = 0 /\ ModelCall(args[1], args[2])
  \/ \E key \in {"id", "_statics", "_overrides"} : ops = 1 /\ HasFieldCall(key)
  \/ \E arg \in DefineValues : ops = 1 /\ ConstructCall(arg)
  \/ \E arg \in DefineValues : ops = 1 /\ IsValidCall(arg)

SpecDefine == InitDefine /\ [][NextDefine]_vars


(***************************************************************************)
(* Properties.                                                             *)
(***************************************************************************)
\* every field that must have a value has one or has a default
RequiredHaveDefaults(defs, values) ==
  \A i \in 1..Len(defs) :
    LET d == defs[i].def
    IN (~d.nullable /\ ~d.autoIncrement /\ IsNil(Get(values, defs[i].key)))
         => HasDefault(d)

\* every field with a value, given or defaulted, passes its type predicate and
\* its validate function
ResolvedSatisfy(defs, values) ==
  \A i \in 1..Len(defs) :
    LET d == defs[i].def
        given == Get(values, defs[i].key)
        resolved == IF IsNil(given) THEN d.default.val ELSE given
    IN (~IsNil(given) \/ HasDefault(d))
         => /\ TypePredicate(d.type, resolved)
            /\ d.validate # "none" => Validate(d.validate, resolved) = "true"

Fits(defs, values) == RequiredHaveDefaults(defs, values) /\ ResolvedSatisfy(defs, values)

\* C1: checkTypes, called directly, through isValid on an object or through the
\* constructor (on the picked and transformed values), succeeds if and only if
\* every required field without a value has a default and every field with a
\* value, given or defaulted, passes its type predicate and its validate
\* function returns exactly true.
C1_TypeCheckerIff ==
  /\ op.name = "checkTypes"
       => (outcome.kind = "returned" <=> Fits(m.definitions, op.arg.obj))
  /\ op.name = "isValid" /\ op.arg.kind = "object"
       => (outcome.value = Boolean(TRUE) <=> Fits(m.definitions, op.arg.obj))
  /\ op.name = "new"
       => (outcome.kind = "returned"
             <=> Fits(m.definitions,
                      ApplyTransforms(m.definitions, Pick(m.definitions, op.arg.obj))))

\* checkTypes accepted values in which a field with a validate function took
\* its default
C1_Witness ==
  /\ op.name = "checkTypes" /\ outcome.kind = "returned"
  /\ \E i \in 1..Len(m.definitions) :
       /\ IsNil(Get(op.arg.obj, m.definitions[i].key))
       /\ HasDefault(m.definitions[i].def)
       /\ m.definitions[i].def.validate # "none"

\* C2: after a successful construction the instance holds, for every field
\* omitted from the raw values whose definition has a default, the resolved
\* default.
C2_DefaultsCopied ==
  (op.name = "new" /\ outcome.kind = "returned")
    => \A i \in 1..Len(m.definitions) :
         LET k == m.definitions[i].key
             d == m.definitions[i].def
         IN (k \notin DOMAIN op.arg.obj /\ HasDefault(d))
              => (k \in DOMAIN self.props /\ self.props[k] = ResolveDefault(d))

\* C3: every value map insert() or update() passes to the collaborator's
\* insert or update satisfies the type checker.
C3_OnlyValidDataStored ==
  op.name \in {"insert", "update"}
    => \A i \in 1..Len(calls) :
         calls[i].method \in {"insert", "update"}
           => checkTypes(m.definitions, calls[i].data) = NoError

\* a static operation on a soft-delete model has issued its call
SoftDeleteQuery ==
  /\ op.name \in {"get", "getOne", "deleteWhere"}
  /\ m.hasDeletedBit /\ calls # <<>>

\* C4 as claimed: get, getOne and deleteWhere add deleted = 0 exactly when the
\* caller's query has no deleted key, and send the caller's value when it has.
C4_FilterUnlessCallerSets ==
  SoftDeleteQuery
    => calls[1].where = IF "deleted" \in DOMAIN op.arg.obj THEN op.arg.obj
                        ELSE Put(op.arg.obj, "deleted", Num(0))

\* C4 as amended: get and getOne add deleted = 0 exactly when the caller's
\* query holds no defined deleted value (absent or undefined) and send the
\* caller's value otherwise; deleteWhere always sends deleted = 0.
C4_FilterAmended ==
  SoftDeleteQuery
    => calls[1].where =
         IF op.name = "deleteWhere" \/ Get(op.arg.obj, "deleted") = Undefined
         THEN Put(op.arg.obj, "deleted", Num(0))
         ELSE op.arg.obj

\* deleteWhere was given deleted = 1 and sent deleted = 0, and get was not
C4_Witness ==
  /\ SoftDeleteQuery /\ op.name = "deleteWhere"
  /\ Get(op.arg.obj, "deleted") = Num(1)
  /\ calls[1].where["deleted"] = Num(0)

\* the one call of deleteWhere(query)
DeleteWhereIssued ==
  (op.name = "deleteWhere" /\ op.arg.kind = "object")
    => /\ Len(calls) = 1
       /\ calls[1].method = IF m.hasDeletedBit THEN "update" ELSE "delete"
       /\ calls[1].where = IF m.hasDeletedBit
                           THEN Put(op.arg.obj, "deleted", Num(0))
                           ELSE op.arg.obj
       /\ calls[1].data = IF m.hasDeletedBit THEN [deleted |-> Num(1)]
                          ELSE EmptyObject

\* when the soft deleteWhere resolves, it counts only rows with deleted = 0
\* and leaves every row with deleted = 1 as it was
DeletedRowsUntouched ==
  (op.name = "deleteWhere" /\ op.stage = "deleteWhere" /\ m.hasDeletedBit
     /\ outcome'.kind = "resolved")
    => /\ Len(db'.rows) = Len(db.rows)
       /\ \A i \in 1..Len(db.rows) :
            RowGet(db.rows[i], "deleted") = Num(1) => db'.rows[i] = db.rows[i]
       /\ outcome'.value.n =
            Cardinality({i \in 1..Len(db.rows) :
                           /\ RowGet(db.rows[i], "deleted") = Num(0)
                           /\ Matches(db.rows[i], Delete(op.arg.obj, "deleted"))})

\* C5: deleteWhere(query) issues exactly one storage call: without a deleted
\* field a delete filtered on exactly the caller's query, with one an update
\* setting deleted = 1 filtered on the query with deleted forced to 0, which
\* never touches a row that has deleted = 1.
C5_DeleteWhereOneCall == []DeleteWhereIssued /\ [][DeletedRowsUntouched]_vars

\* a soft deleteWhere({}) resolved having touched one of two rows
C5_Witness ==
  /\ op.name = "deleteWhere" /\ op.arg = Object(EmptyObject) /\ m.hasDeletedBit
  /\ outcome.kind = "resolved" /\ outcome.value.n = 1 /\ Len(db.rows) = 2

\* C6: Model() throws, and returns no model, when two fields of the schema
\* have primaryId: true, whatever their order and names, and does not throw
\* for this reason with one such field or none.
C6_TwoPrimaryIdsFail ==
  op.name = "Model"
    => LET fields == op.arg.fields
           n == Cardinality({i \in 1..Len(fields) : fields[i].def.primaryId})
       IN /\ n >= 2 => (outcome.kind = "threw" /\ ~m.defined)
          /\ n <= 1 => outcome.error # NewError(<<(<<"Cannot have multiple primary keys on model ",
                                                    op.arg2.name>>)>>)

\* the key names an autoIncrement field of the schema
IsAutoIncrement(k) ==
  HasOwnProperty(m.definitions, k) /\ DefOf(m.definitions, k).autoIncrement

\* C7: the value map insert() passes to the collaborator's insert holds no
\* autoIncrement field, whatever the record held before the call.
C7_NoAutoIncrementInserted ==
  op.name = "insert"
    => \A i \in 1..Len(calls) :
         calls[i].method = "insert"
           => \A k \in DOMAIN calls[i].data : ~IsAutoIncrement(k)

\* insert() was called on a record that held its autoIncrement field
C7_Witness ==
  /\ op.name = "insert" /\ calls # <<>>
  /\ \E k \in DOMAIN op.before : IsAutoIncrement(k)

\* C8: with a primary key insert() resolves to what getOne resolves to for the
\* primary key equal to the first element of the insert result; without one it
\* resolves to the raw insert result and issues no select.
C8_InsertRefetches ==
  op.name = "insert"
    => IF Truthy(m.primaryKey)
       THEN /\ Len(calls) = 2
              => /\ calls[2].method = "select"
                 /\ calls[2].where = WithNotDeleted(m,
                      [k \in {m.primaryKey} |-> Num(calls[1].result.n)])
            /\ outcome.kind = "resolved"
              => /\ Len(calls) = 2
                 /\ outcome.value =
                      IF calls[2].result.list = <<>> THEN NullValue
                      ELSE Record(Construct(m.definitions,
                                            calls[2].result.list[1]).props)
       ELSE /\ \A i \in 1..Len(calls) : calls[i].method = "insert"
            /\ outcome.kind = "resolved"
              => (Len(calls) = 1 /\ outcome.value = calls[1].result)

\* insert() resolved to the re-fetched record
C8_Witness ==
  /\ op.name = "insert" /\ Truthy(m.primaryKey)
  /\ outcome.kind = "resolved" /\ outcome.value.type = "record"

\* C9: on a schema with an autoIncrement primary key, insert() of a record
\* with valid values followed by getOne on the generated key yields a record,
\* not null, whose field values equal the inserted values, with the
\* autoIncrement field populated.
C9_RoundTrip ==
  (/\ op.name = "insert" /\ op.stage = "done"
   /\ Truthy(m.primaryKey) /\ IsAutoIncrement(m.primaryKey)
   /\ checkTypes(m.definitions, op.before) = NoError
   /\ Len(calls) = 2 /\ calls[2].result # NoValue)
    => /\ outcome.kind = "resolved" /\ outcome.value.type = "record"
       /\ \A k \in DOMAIN calls[1].data \cap Keys(m.definitions) :
            Get(outcome.value.props, k) = calls[1].data[k]
       /\ m.primaryKey \in DOMAIN outcome.value.props

\* C10: delete() on a model without a primary key throws before any storage
\* call, with an error whose message names the table; with a primary key it
\* does not throw.
C10_DeleteNeedsPrimaryKey ==
  op.name = "delete"
    => IF Truthy(m.primaryKey) THEN outcome.kind # "threw"
       ELSE /\ outcome.kind = "threw" /\ calls = <<>>
            /\ Names(outcome.error, m.table)

\* C11: update() on a record of a model without a primary key throws at the
\* call, and no call whose predicate has the undefined key reaches the
\* collaborator.
C11_UpdateNeedsPrimaryKey ==
  (op.name = "update" /\ m.primaryKey = NoKey)
    => /\ outcome.kind = "threw"
       /\ \A i \in 1..Len(calls) : NoKey \notin DOMAIN calls[i].where

\* the operation returned a promise: it is pending or has settled
ReturnedPromise == outcome.kind \in {"pending", "resolved", "rejected"}

\* the merge update() type-checks: _.extend(_.clone(this), updateWith)
MergedForUpdate == Extend(op.before, op.arg.obj)

\* C12: insert() always returns a promise, update() returns one exactly when
\* the merged values pass the type checker (also with no argument on an empty
\* schema), and delete() returns one on a model with a primary key.
C12_ReturnsPromise ==
  /\ op.name = "insert" => ReturnedPromise
  /\ op.name = "update"
       => (ReturnedPromise <=> checkTypes(m.definitions, MergedForUpdate) = NoError)
  /\ op.name = "delete" /\ Truthy(m.primaryKey) => ReturnedPromise

\* update() with no argument on an empty schema returned a promise
C12_Witness ==
  /\ op.name = "update" /\ op.arg = Omitted /\ m.definitions = <<>>
  /\ outcome.kind = "pending"

\* C13: when the merge of the record's fields with update()'s values fails the
\* type checker, update() throws that error and issues no storage call.
C13_InvalidUpdateAborts ==
  (op.name = "update" /\ checkTypes(m.definitions, MergedForUpdate) # NoError)
    => /\ outcome = Threw(checkTypes(m.definitions, MergedForUpdate))
       /\ calls = <<>>

\* update() threw on a record that was valid before the partial values
C13_Witness ==
  /\ op.name = "update" /\ outcome.kind = "threw" /\ op.arg.kind = "object"
  /\ checkTypes(m.definitions, op.before) = NoError

\* C14: after update() resolves, for every field of the payload the instance
\* and the resolved record hold the value that was sent to storage.
C14_UpdateReconciles ==
  (op.name = "update" /\ outcome.kind = "resolved")
    => \A k \in DOMAIN calls[1].data :
         /\ Get(self.props, k) = calls[1].data[k]
         /\ Get(outcome.value.props, k) = calls[1].data[k]

\* C15: after insert() resolves on a model with an autoIncrement primary key,
\* the instance it was called on holds the generated primary key.
C15_InsertRefreshesIdentity ==
  (/\ op.name = "insert" /\ outcome.kind = "resolved"
   /\ Truthy(m.primaryKey) /\ IsAutoIncrement(m.primaryKey))
    => /\ m.primaryKey \in DOMAIN self.props
       /\ self.props[m.primaryKey] = Num(calls[1].result.n)

\* Model() was called with a string table name and an object schema whose
\* _overrides is an object
DefinedWithOverrides ==
  /\ op.name = "Model" /\ op.arg2.kind = "string" /\ op.arg.kind = "object"
  /\ op.arg.overrides.kind = "object"

\* the entries of that _overrides object
Entries == op.arg.overrides.entries

\* _overrides = {get: F}: get is F and the other methods are the defaults
GetOverrideInstalled ==
  (DefinedWithOverrides /\ Len(Entries) = 1 /\ Entries[1].key = "get"
     /\ Entries[1].prop \in Functions /\ outcome.kind = "returned")
    => /\ m.methods["get"] = Entries[1].prop
       /\ \A method \in {"getOne", "insert", "update", "delete"} :
            m.methods[method] = Default

\* C16 as claimed: _overrides = {get: F} installs F as get and leaves the
\* other methods at their defaults; an _overrides with the key isValid fails
\* the definition with an error naming isValid and the table, whatever its
\* other keys.
C16_OverrideSubstitution ==
  /\ GetOverrideInstalled
  /\ (DefinedWithOverrides /\ \E i \in 1..Len(Entries) : Entries[i].key = "isValid")
       => /\ outcome.kind = "threw" /\ ~m.defined
          /\ Names(outcome.error, "isValid")
          /\ Names(outcome.error, op.arg2.name)

\* C16 as amended: the definition with the key isValid in _overrides always
\* fails, and the error names isValid and the table when every entry before
\* isValid is an allowed key mapped to a function.
C16_OverrideAmended ==
  /\ GetOverrideInstalled
  /\ DefinedWithOverrides => \A i \in 1..Len(Entries) :
       Entries[i].key = "isValid"
         => /\ outcome.kind = "threw" /\ ~m.defined
            /\ (\A j \in 1..(i - 1) : /\ Entries[j].key \in mutableMethods
                                      /\ Entries[j].prop \in Functions)
                 => /\ Names(outcome.error, "isValid")
                    /\ Names(outcome.error, op.arg2.name)

\* _overrides = {get: F, isValid: F} failed the definition naming isValid
C16_Witness ==
  /\ DefinedWithOverrides
  /\ Entries = <<Override("get", "F"), Override("isValid", "F")>>
  /\ outcome.kind = "threw" /\ Names(outcome.error, "isValid")

\* C17: an _overrides that maps deleteWhere to a function (and any other
\* allowed key to a function) is accepted and that function is installed as
\* the static deleteWhere; a non-function value for an allowed key fails the
\* definition.
C17_DeleteWhereOverridable ==
  DefinedWithOverrides
    => /\ (/\ \A i \in 1..Len(Entries) :
                /\ Entries[i].key \in mutableMethods \cup {"deleteWhere"}
                /\ Entries[i].prop \in Functions
           /\ \E i \in 1..Len(Entries) : Entries[i].key = "deleteWhere")
          => /\ outcome.kind = "returned"
             /\ \A i \in 1..Len(Entries) :
                  Entries[i].key = "deleteWhere"
                    => m.methods["deleteWhere"] = Entries[i].prop
       /\ (\E i \in 1..Len(Entries) :
             /\ Entries[i].key \in mutableMethods \cup {"deleteWhere"}
             /\ Entries[i].prop \notin Functions)
          => outcome.kind = "threw"

\* the definitions of the model without the reserved keys
FieldsOnly ==
  SelectSeq(m.definitions, LAMBDA f : f.key \notin {"_statics", "_overrides"})

\* C18: on every model whose definition completed, hasField is false for
\* _statics and _overrides, and the constructor and isValid behave as on the
\* schema without the reserved keys.
C18_ReservedKeysNeverFields ==
  m.defined
    => /\ ~hasField(m, "_statics") /\ ~hasField(m, "_overrides")
       /\ op.name = "hasField" /\ op.arg \in {"_statics", "_overrides"}
            => outcome.value = Boolean(FALSE)
       /\ op.name = "new"
            => (outcome.kind = "threw"
                  <=> Construct(FieldsOnly, op.arg.obj).error # NoError)
       /\ op.name = "isValid"
            => outcome.value = Boolean(isValid(FieldsOnly, op.arg))

\* C19: Model(tableName, schema) throws a TypeError unless tableName is a
\* non-empty string and schema is an object, and with a non-empty string and
\* an empty object it returns a model.
C19_ModelArguments ==
  op.name = "Model"
    => /\ (op.arg2.kind # "string" \/ op.arg2.name = "" \/ op.arg.kind # "object")
            => (outcome.kind = "threw" /\ outcome.error.class = "TypeError")
       /\ (op.arg2.kind = "string" /\ op.arg2.name # "" /\ op.arg = Fields(<<>>))
            => (outcome.kind = "returned" /\ m.defined)

\* the argument was given and is not an object
ProvidedNotObject(arg) == arg.kind \notin {"omitted", "object"}

\* the operation threw a TypeError before any storage call
ThrewTypeError ==
  outcome.kind = "threw" /\ outcome.error.class = "TypeError" /\ calls = <<>>

\* C20: get and getOne accept omitted arguments and throw a TypeError, with no
\* storage call, whenever a query (or options, for get) is given and is not
\* an object; deleteWhere throws a TypeError when its query is omitted or not
\* an object.
C20_QueryArgumentGating ==
  /\ op.name = "get"
       => IF ProvidedNotObject(op.arg) \/ ProvidedNotObject(op.arg2)
          THEN ThrewTypeError ELSE outcome.kind # "threw"
  /\ op.name = "getOne"
       => IF ProvidedNotObject(op.arg) THEN ThrewTypeError
          ELSE outcome.kind # "threw"
  /\ op.name = "deleteWhere"
       => IF op.arg.kind # "object" THEN ThrewTypeError
          ELSE outcome.kind # "threw"

\* the options object get() was called with, and whether it gives a value
GetOptionsGiven == op.arg2.obj
Supplied(key) == Get(GetOptionsGiven, key) # Undefined

\* limit and offset of the one select of get()
PagingAsGiven ==
  /\ Len(calls) = 1 /\ calls[1].method = "select"
  /\ calls[1].limit = IF Supplied("limit") THEN GetOptionsGiven["limit"]
                      ELSE Num(100)
  /\ calls[1].offset = IF Supplied("offset") THEN GetOptionsGiven["offset"]
                       ELSE Num(0)

\* ascending unless asc is given falsy, or is omitted on a model without a
\* primary key
DirectionAsGiven ==
  calls[1].dir = IF Supplied("asc")
                 THEN (IF ToBoolean(GetOptionsGiven["asc"]) THEN "asc" ELSE "desc")
                 ELSE IF Truthy(m.primaryKey) THEN "asc" ELSE "desc"

\* C21 as claimed: get issues one select with limit and offset as supplied or
\* 100 and 0, ordered by options.orderBy if supplied, else by the primary key
\* if there is one, else not ordered; ascending when asc is omitted and a
\* primary key exists.
C21_GetPagingOrdering ==
  (op.name = "get" /\ outcome.kind # "threw")
    => /\ PagingAsGiven
       /\ calls[1].orderBy = IF Supplied("orderBy") THEN GetOptionsGiven["orderBy"].s
                             ELSE IF Truthy(m.primaryKey) THEN m.primaryKey
                             ELSE NoKey
       /\ (calls[1].orderBy # NoKey /\ ~Supplied("asc") /\ Truthy(m.primaryKey))
            => calls[1].dir = "asc"

\* C21 as amended: the select is ordered by options.orderBy when it is
\* supplied and truthy, by the primary key when orderBy is not supplied and
\* the model has one, and not at all otherwise (a supplied empty orderBy
\* gives no ordering clause even with a primary key).
C21_GetPagingAmended ==
  (op.name = "get" /\ outcome.kind # "threw")
    => /\ PagingAsGiven
       /\ calls[1].orderBy =
            IF Supplied("orderBy")
            THEN (IF ToBoolean(GetOptionsGiven["orderBy"])
                  THEN GetOptionsGiven["orderBy"].s ELSE NoKey)
            ELSE IF Truthy(m.primaryKey) THEN m.primaryKey
            ELSE NoKey
       /\ calls[1].orderBy # NoKey => DirectionAsGiven
       /\ (m.definitions = <<>> /\ op.arg2 = Object(EmptyObject))
            => /\ calls[1].limit = Num(100) /\ calls[1].offset = Num(0)
               /\ calls[1].orderBy = NoKey

\* get({}, {orderBy: 'name'}) on a model with a primary key resolved to two
\* records ordered by name, ascending
C21_Witness ==
  /\ op.name = "get" /\ outcome.kind = "resolved" /\ Truthy(m.primaryKey)
  /\ op.arg2 = Object([orderBy |-> Name("name")])
  /\ calls[1].orderBy = "name" /\ calls[1].dir = "asc"
  /\ Len(outcome.value.list) = 2
  /\ outcome.value.list[1]["id"] = Num(MaxNum)

\* the rows the select of a finished get() or getOne() resolved to
SelectResolved ==
  /\ op.name \in {"get", "getOne"} /\ op.stage = "done"
  /\ calls # <<>> /\ LastCall.result.type = "rows"
RowsReturned == LastCall.result.list

\* C22: get resolves to one record per returned row, in row order, each made
\* by the record constructor; getOne resolves to the record of the first row,
\* and to null, never rejecting, when no row matches.
C22_RowsBecomeRecords ==
  SelectResolved
    => /\ (op.name = "get" /\ outcome.kind = "resolved")
            => /\ Len(outcome.value.list) = Len(RowsReturned)
               /\ \A i \in 1..Len(RowsReturned) :
                    /\ Construct(m.definitions, RowsReturned[i]).error = NoError
                    /\ outcome.value.list[i]
                         = Construct(m.definitions, RowsReturned[i]).props
       /\ (op.name = "getOne" /\ RowsReturned = <<>>) => outcome = Resolved(NullValue)
       /\ (op.name = "getOne" /\ RowsReturned # <<>> /\ outcome.kind = "resolved")
            => outcome.value
                 = Record(Construct(m.definitions, RowsReturned[1]).props)

\* get resolved to two different records, the constructor having transformed
\* the first row
C22_Witness ==
  /\ SelectResolved /\ op.name = "get" /\ outcome.kind = "resolved"
  /\ Len(outcome.value.list) = 2
  /\ outcome.value.list[1] # outcome.value.list[2]
  /\ outcome.value.list[1] # RowsReturned[1]

\* C23 as claimed: isValid never throws, returns false with no argument, and
\* returns true exactly when the constructor accepts the same object.
C23_IsValidIffConstructs ==
  op.name = "isValid"
    => /\ outcome.kind = "returned"
       /\ op.arg = Omitted => outcome.value = Boolean(FALSE)
       /\ op.arg.kind = "object"
            => (outcome.value = Boolean(TRUE)
                  <=> Construct(m.definitions, op.arg.obj).error = NoError)

\* the instance fields overlaid with the argument of update()
UpdateOverlay(key) ==
  IF key \in DOMAIN op.arg.obj THEN op.arg.obj[key] ELSE op.before[key]

\* C25: update(partial) issues exactly one storage update, whose predicate is
\* the primary key with the value the instance had before the merge, and whose
\* payload is the instance fields overlaid with partial, schema keys only.
C25_UpdateCallShape ==
  (op.name = "update" /\ outcome.kind # "threw")
    => /\ Len(calls) = 1 /\ calls[1].method = "update"
       /\ calls[1].where = [k \in {m.primaryKey} |-> Get(op.before, m.primaryKey)]
       /\ DOMAIN calls[1].data
            = Keys(m.definitions) \cap (DOMAIN op.before \cup DOMAIN op.arg.obj)
       /\ \A key \in DOMAIN calls[1].data : calls[1].data[key] = UpdateOverlay(key)

\* update({id: MaxNum}) on an instance with another id and a field outside
\* the schema: the predicate holds the old id, the payload the new one
C25_Witness ==
  /\ op.name = "update" /\ outcome.kind = "resolved" /\ Truthy(m.primaryKey)
  /\ op.arg = Object([id |-> Num(MaxNum)])
  /\ calls[1].where = [id |-> Num(1)]
  /\ calls[1].data["id"] = Num(MaxNum)
  /\ DOMAIN op.before \ Keys(m.definitions) # {}

\* the rows after the storage call of delete(): marked, or removed
RowsAfterDelete(rows, where) ==
  IF m.hasDeletedBit
  THEN [i \in 1..Len(rows) |->
          IF Matches(rows[i], where) THEN Put(rows[i], "deleted", Num(1)) ELSE rows[i]]
  ELSE SelectSeq(rows, LAMBDA row : ~Matches(row, where))

\* C27: no step of delete(), soft or hard, changes a field of the instance;
\* only the stored row is set to deleted = 1 or removed.
C27_DeleteKeepsFields ==
  [][op'.name = "delete"
       => /\ self' = self
          /\ db' = IF outcome'.kind = "resolved"
                   THEN [db EXCEPT !.rows = RowsAfterDelete(db.rows, LastCall.where)]
                   ELSE db]_vars

\* a soft delete resolved: the stored row is marked, the instance is not
C27_Witness ==
  /\ op.name = "delete" /\ outcome.kind = "resolved" /\ m.hasDeletedBit
  /\ Get(self.props, "deleted") = Num(0)
  /\ \E i \in 1..Len(db.rows) :
       /\ db.rows[i]["id"] = self.props["id"]
       /\ db.rows[i]["deleted"] = Num(1)

\* C28: an update that failed, by the type checker or by the collaborator's
\* rejection, leaves the instance's fields as they were.
C28_FailedUpdateKeepsFields ==
  (op.name = "update" /\ outcome.kind \in {"threw", "rejected"})
    => self.props = op.before

\* update({name: ...}) rejected by the collaborator, and update with an
\* invalid name thrown back, each on an instance with another name
C28_Witness ==
  /\ op.name = "update" /\ outcome = Rejected(StorageFault)
  /\ op.arg = Object([name |-> Str(MaxNum)])
  /\ Get(self.props, "name") = Str(1)

\* C29 as claimed: get, getOne and deleteWhere leave the query object, and
\* get the options object, that the caller passed as they were.
C29_ArgumentsUntouched ==
  op.name \in {"get", "getOne", "deleteWhere"}
    => passed.query = op.arg /\ passed.options = op.arg2

\* the collaborator rejected the i-th call of the operation
Faulted(i) == calls[i].result.type = "fault"

\* C26: when the collaborator rejects a call of get, getOne, insert, update,
\* delete, deleteWhere or raw, the operation's promise rejects with the same
\* error and the rejected call is the operation's last: nothing is in flight
\* and no call follows it, and the select of an insert with a primary key is
\* only ever issued after the insert resolved.
C26_RejectionPropagates ==
  \A i \in 1..Len(calls) :
    /\ Faulted(i)
         => /\ i = Len(calls) /\ pc = "idle"
            /\ outcome.kind = "rejected" /\ Fault(outcome.error) = calls[i].result
    /\ i < Len(calls) => calls[i].result.type \notin {"undefined", "fault"}

\* the select of an insert with a primary key was rejected with the second
\* error, after the insert itself resolved
C26_Witness ==
  /\ op.name = "insert" /\ Len(calls) = 2
  /\ calls[1].method = "insert" /\ calls[1].result.type = "raw"
  /\ calls[2].method = "select" /\ Faulted(2)
  /\ outcome = Rejected(ConnectionLost)

\* C24 as claimed: modeller.Model throws the need-to-connect error while no
\* connect() has succeeded, and after a connect() whose config carries a knex
\* object modeller.Model is the factory created from exactly that knex.
C24_ModelAfterConnect ==
  /\ (op.name = "modeller.Model" /\ localKnex = NoKnex)
       => outcome = Threw(NeedToConnect)
  /\ (op.name = "connect" /\ outcome.kind = "returned" /\ op.arg.knex # NoKnex)
       => modeller.Model = createModelClass(op.arg.knex)

\* C30 as claimed: whenever modeller.Model is a real factory, a model it has
\* defined reports the knex modeller.getKnex() returns.
C30_OneKnex ==
  (op.name = "modeller.Model" /\ outcome.kind = "returned")
    => getKnex = modellerGetKnex

====
